---- MODULE Spec2Model ----
(***************************************************************************)
(* Addressing layer of tokio-socks (src/lib.rs): normalisation of caller   *)
(* inputs into TargetAddr (IntoTargetAddr), the SOCKS5 ATYP wire encoding  *)
(* (TargetAddr::write_to) and the proxy address streams (ToProxyAddrs).    *)
(*                                                                         *)
(* A text (str, String) is the sequence of its UTF-8 bytes, so its byte     *)
(* length (as_bytes().len()) is Len.  All text used here is ASCII.         *)
(* Option values are <<>> (None) and <<v>> (Some(v)).                      *)
(***************************************************************************)
EXTENDS Integers, Sequences, FiniteSets, TLC

VARIABLES
    pc,       \* position of the address pipeline: "start", "have", "written"
    input,    \* the value the TargetAddr was made from (shape and arguments)
    target,   \* Result<TargetAddr>: what the conversion returned
    wire,     \* outcome of write_to: the buffer and the returned count, or a panic
    spc,      \* position of the stream scenario: "start", "polling"
    source,   \* the value to_proxy_addrs was called on, with the resolver's answer
    stream,   \* the stream object returned by to_proxy_addrs
    polled,   \* what each poll returned, in order
    aborted   \* TRUE once a poll has panicked

vars == <<pc, input, target, wire, spc, source, stream, polled, aborted>>

----------------------------------------------------------------------------
(* Text, bytes and numbers                                                 *)

\* The printable ASCII characters, code 32 first (the double quote, the
\* backslash and the backtick are written by name).
Printable ==
    <<
       " ", "!", "dquote", "#", "$", "%", "&", "'", "(", ")", "*", "+", ",", "-", ".", "/",
       "0", "1", "2", "3", "4", "5", "6", "7", "8", "9", ":", ";", "<", "=", ">", "?",
       "@", "A", "B", "C", "D", "E", "F", "G", "H", "I", "J", "K", "L", "M", "N", "O",
       "P", "Q", "R", "S", "T", "U", "V", "W", "X", "Y", "Z", "[", "backslash", "]", "^", "_",
       "backtick", "a", "b", "c", "d", "e", "f", "g", "h", "i", "j", "k", "l", "m", "n", "o",
       "p", "q", "r", "s", "t", "u", "v", "w", "x", "y", "z", "{", "|", "}", "~"
    >>

\* The byte of one printable character.
Code(c) == 31 + (CHOOSE i \in 1..Len(Printable) : Printable[i] = c)

\* The text written as a tuple of characters.
Utf8(chars) == [i \in 1..Len(chars) |-> Code(chars[i])]

\* str::as_bytes.
AsBytes(s) == s

None == <<>>

Some(v) == <<v>>

\* F applied to the value of v, which is evaluated once (let x = v; F(x)).
Bind(v, F(_)) == CHOOSE r \in {F(x) : x \in {v}} : TRUE

\* Option::map.
MapSome(opt, F(_)) ==
    Bind(opt, LAMBDA o : IF o = None THEN None ELSE Some(F(o[1])))

\* Option::or_else: opt when it is Some, alt otherwise.
OrElse(opt, alt) == Bind(opt, LAMBDA o : IF o # None THEN o ELSE alt)

Rep(c, n) == [i \in 1..n |-> c]

\* "0".."9" are the bytes 48..57, "A".."F" 65..70 and "a".."f" 97..102.
IsDigit(b) == b >= 48 /\ b <= 57

IsHexDigit(b) ==
    \/ IsDigit(b)
    \/ b >= 97 /\ b <= 102
    \/ b >= 65 /\ b <= 70

HexVal(b) ==
    IF IsDigit(b) THEN b - 48
    ELSE IF b >= 97 THEN b - 87
    ELSE b - 55

\* The positions of the byte sep in s.
Positions(s, sep) == {i \in 1..Len(s) : s[i] = sep}

\* The k-th smallest position of pos.
KthPos(pos, k) == CHOOSE p \in pos : Cardinality({q \in pos : q <= p}) = k

\* The pieces of s between the positions pos.
SplitAt(s, pos) ==
    [k \in 1..(Cardinality(pos) + 1) |->
        SubSeq(s,
               IF k = 1 THEN 1 ELSE KthPos(pos, k - 1) + 1,
               IF k = Cardinality(pos) + 1 THEN Len(s) ELSE KthPos(pos, k) - 1)]

\* str::split(sep): the pieces of s between the occurrences of sep.
Split(s, sep) == Bind(Positions(s, sep), LAMBDA pos : SplitAt(s, pos))

\* The position of the last occurrence of sep in s, which has one.
LastPos(s, sep) ==
    Bind(Positions(s, sep), LAMBDA pos : CHOOSE p \in pos : \A q \in pos : q <= p)

\* Decimal value with checked arithmetic: once the value leaves the range
\* 0..max the parse has failed, which max + 1 stands for.
RECURSIVE DecValue(_, _)
DecValue(s, max) ==
    IF s = <<>> THEN 0
    ELSE Bind(10 * DecValue(SubSeq(s, 1, Len(s) - 1), max) + (s[Len(s)] - 48),
              LAMBDA v : IF v > max THEN max + 1 ELSE v)

RECURSIVE HexValue(_)
HexValue(s) ==
    IF s = <<>> THEN 0
    ELSE 16 * HexValue(SubSeq(s, 1, Len(s) - 1)) + HexVal(s[Len(s)])

\* A run of decimal digits read as a number of at most max (None otherwise).
ParseDigits(s, max) ==
    IF s = <<>> \/ \E i \in 1..Len(s) : ~IsDigit(s[i]) THEN None
    ELSE Bind(DecValue(s, max), LAMBDA v : IF v > max THEN None ELSE Some(v))

\* port_str.parse::<u16>(): an optional "+", then decimal digits, in 0..65535.
ParseU16(s) ==
    IF s # <<>> /\ s[1] = Code("+") THEN ParseDigits(SubSeq(s, 2, Len(s)), 65535)
    ELSE ParseDigits(s, 65535)

----------------------------------------------------------------------------------------------------------------------------------------
(* std::net literal parsers used by the conversions (str::parse)           *)

\* One dotted-decimal octet: 1 to 3 digits, at most 255, no leading zero.
IsOctet(p) ==
    /\ Len(p) >= 1 /\ Len(p) <= 3
    /\ ParseDigits(p, 255) # None
    /\ (Len(p) > 1 => p[1] # Code("0"))

Ipv4FromParts(parts) ==
    IF Len(parts) = 4 /\ \A i \in 1..4 : IsOctet(parts[i])
    THEN Some([i \in 1..4 |-> DecValue(parts[i], 255)])
    ELSE None

\* s.parse::<Ipv4Addr>(): Some(the four octets) or None.
ParseIpv4(s) == Bind(Split(s, Code(".")), Ipv4FromParts)

\* One colon-separated group of an IPv6 literal: 1 to 4 hex digits.
IsHexGroup(p) ==
    /\ Len(p) >= 1 /\ Len(p) <= 4
    /\ \A i \in 1..Len(p) : IsHexDigit(p[i])

\* The 16-bit words one part of an IPv6 literal stands for (a hex group, or
\* a trailing dotted IPv4 address that stands for two words).
PartWords(p) ==
    IF IsHexGroup(p) THEN <<HexValue(p)>>
    ELSE Bind(ParseIpv4(p)[1],
              LAMBDA o : <<o[1] * 256 + o[2], o[3] * 256 + o[4]>>)

RECURSIVE WordsOf(_)
WordsOf(parts) ==
    IF parts = <<>> THEN <<>>
    ELSE PartWords(Head(parts)) \o WordsOf(Tail(parts))

\* The sixteen octets of eight 16-bit words, high byte first.
Octets(words) ==
    [i \in 1..16 |-> IF i % 2 = 1 THEN words[(i + 1) \div 2] \div 256
                     ELSE words[i \div 2] % 256]

\* The empty parts of Q: where "::" stands.
GapsOf(Q) == {i \in 1..Len(Q) : Q[i] = <<>>}

\* The words before and after the "::" (all of them before, without one).
HeadWords(Q, gaps) ==
    IF gaps = {} THEN WordsOf(Q)
    ELSE WordsOf(SubSeq(Q, 1, (CHOOSE i \in gaps : TRUE) - 1))

TailWords(Q, gaps) ==
    IF gaps = {} THEN <<>>
    ELSE WordsOf(SubSeq(Q, (CHOOSE i \in gaps : TRUE) + 1, Len(Q)))

\* Eight words are needed; a "::" stands for at least one zero word.
Ipv6FromWords(gap, hd, tl) ==
    IF (gap /\ Len(hd) + Len(tl) <= 7) \/ (~gap /\ Len(hd) = 8)
    THEN Some(Octets(hd \o Rep(0, 8 - Len(hd) - Len(tl)) \o tl))
    ELSE None

\* Q: the parts with the empty edge parts of a leading or trailing "::"
\* taken off.  At most one "::"; every other part is a hex group, or, for
\* the last part, a dotted IPv4 address.
Ipv6FromGroups(Q) ==
    Bind(GapsOf(Q), LAMBDA gaps :
        IF /\ Cardinality(gaps) <= 1
           /\ \A i \in (1..Len(Q)) \ gaps :
                 IsHexGroup(Q[i]) \/ (i = Len(Q) /\ ParseIpv4(Q[i]) # None)
        THEN Bind(HeadWords(Q, gaps), LAMBDA hd :
                 Bind(TailWords(Q, gaps), LAMBDA tl :
                     Ipv6FromWords(gaps # {}, hd, tl)))
        ELSE None)

\* P: the text split at ":".  A text may begin or end with ":" only as "::".
Ipv6FromParts(P) ==
    IF /\ P[1] = <<>> => (Len(P) >= 3 /\ P[2] = <<>>)
       /\ P[Len(P)] = <<>> => (Len(P) >= 3 /\ P[Len(P) - 1] = <<>>)
    THEN Ipv6FromGroups(SubSeq(P, IF P[1] = <<>> THEN 2 ELSE 1,
                                  IF P[Len(P)] = <<>> THEN Len(P) - 1 ELSE Len(P)))
    ELSE None

\* s.parse::<Ipv6Addr>(): Some(the sixteen octets) or None.  Groups are
\* separated by ":", one "::" may stand for one or more zero groups, and
\* the last part may be a dotted IPv4 address.
ParseIpv6(s) == Bind(Split(s, Code(":")), Ipv6FromParts)

V4(ip) == [fam |-> "V4", ip |-> ip]

V6(ip) == [fam |-> "V6", ip |-> ip]

\* s.parse::<IpAddr>(): IPv4 first, then IPv6.
ParseIpAddr(s) == OrElse(MapSome(ParseIpv4(s), V4), MapSome(ParseIpv6(s), V6))

\* SocketAddr::from((ip, port)) / SocketAddr::new.
SocketAddr(ip, port) == [ip |-> ip, port |-> port]

\* The socket address of the host text and the port, for a host that is a
\* dotted IPv4 address or an IPv6 address in brackets.
SocketAddrOf(host, port) ==
    OrElse(MapSome(ParseIpv4(host), LAMBDA ip : SocketAddr(V4(ip), port)),
           IF Len(host) >= 2 /\ host[1] = Code("[") /\ host[Len(host)] = Code("]")
           THEN MapSome(ParseIpv6(SubSeq(host, 2, Len(host) - 1)),
                        LAMBDA ip : SocketAddr(V6(ip), port))
           ELSE None)

\* s.parse::<SocketAddr>(): "a.b.c.d:port" or "[ipv6]:port"; the port is a
\* run of decimal digits (no sign) in 0..65535.
ParseSocketAddr(s) ==
    IF Positions(s, Code(":")) = {} THEN None
    ELSE Bind(LastPos(s, Code(":")), LAMBDA c :
            Bind(ParseDigits(SubSeq(s, c + 1, Len(s)), 65535), LAMBDA port :
                IF port = None THEN None
                ELSE SocketAddrOf(SubSeq(s, 1, c - 1), port[1])))

----------------
(* TargetAddr, Result and Error                                            *)

\* TargetAddr::Ip(SocketAddr).
Ip(addr) == [tag |-> "Ip", addr |-> addr]

\* TargetAddr::Domain(Cow<str>, u16); cow is "Borrowed" or "Owned".
Domain(cow, text, port) ==
    [tag |-> "Domain", cow |-> cow, domain |-> text, port |-> port]

\* #[derive(PartialEq)] on TargetAddr: Cow compares the text, not the storage.
TargetEq(a, b) ==
    /\ a.tag = b.tag
    /\ a.tag = "Ip" => a.addr = b.addr
    /\ a.tag = "Domain" => (a.domain = b.domain /\ a.port = b.port)

Ok(v) == [ok |-> TRUE, val |-> v]

Err(e) == [ok |-> FALSE, err |-> e]

InvalidTargetAddress(msg) == [kind |-> "InvalidTargetAddress", msg |-> msg]

\* The longest domain the (&str, u16) conversion accepts.
MaxDomainLen == 255

----------------------------------------------------------------------------------------------------------------------------------------
(* IntoTargetAddr                                                          *)

\* trivial_impl_into_target_addr!(SocketAddr) and the SocketAddrV4/V6 forms.
IntoTargetAddrSocketAddr(addr) == Ok(Ip(addr))

\* trivial_impl_into_target_addr!((IpAddr, u16)) and the Ipv4/Ipv6 tuples.
IntoTargetAddrIpPort(ip, port) == Ok(Ip(SocketAddr(ip, port)))

\* Mutant: the length test is off by one (>= instead of >).
IntoTargetAddrStrPort_OffByOne(host, port) ==
    Bind(ParseIpAddr(host), LAMBDA addr :
        IF addr # None THEN IntoTargetAddrIpPort(addr[1], port)
        ELSE IF Len(AsBytes(host)) >= MaxDomainLen
             THEN Err(InvalidTargetAddress("overlong domain"))
        ELSE Ok(Domain("Borrowed", host, port)))

\* Mutant: the IP literal is not tried first, every host is a domain.
IntoTargetAddrStrPort_NoIp(host, port) ==
    IF Len(AsBytes(host)) > MaxDomainLen
    THEN Err(InvalidTargetAddress("overlong domain"))
    ELSE Ok(Domain("Borrowed", host, port))

\* impl IntoTargetAddr for (&str, u16).
IntoTargetAddrStrPort(host, port) ==
    Bind(ParseIpAddr(host), LAMBDA addr :
        IF addr # None THEN IntoTargetAddrIpPort(addr[1], port)
        ELSE IF Len(AsBytes(host)) > MaxDomainLen
             THEN Err(InvalidTargetAddress("overlong domain"))
        ELSE Ok(Domain("Borrowed", host, port)))

\* s.rsplitn(2, ':') as the sequence of items the iterator yields: the text
\* after the last colon first, then the text before it; a text without a
\* colon yields itself and nothing more.
RSplitN2(s) ==
    IF Positions(s, Code(":")) = {} THEN <<s>>
    ELSE Bind(LastPos(s, Code(":")), LAMBDA c :
            <<SubSeq(s, c + 1, Len(s)), SubSeq(s, 1, c - 1)>>)

\* Mutant: the host is validated before the port is parsed.
IntoTargetAddrStr_HostFirst(s) ==
    Bind(ParseSocketAddr(s), LAMBDA addr :
        IF addr # None THEN IntoTargetAddrSocketAddr(addr[1])
        ELSE Bind(RSplitN2(s), LAMBDA parts :
            Bind(ParseU16(parts[1]), LAMBDA port :
                IF Len(parts) < 2
                THEN Err(InvalidTargetAddress("invalid address format"))
                ELSE Bind(IntoTargetAddrStrPort(parts[2], 0), LAMBDA host :
                    IF ~host.ok THEN host
                    ELSE IF port = None
                         THEN Err(InvalidTargetAddress("invalid address format"))
                    ELSE IntoTargetAddrStrPort(parts[2], port[1])))))

\* impl IntoTargetAddr for &str.
IntoTargetAddrStr(s) ==
    Bind(ParseSocketAddr(s), LAMBDA addr :
        IF addr # None THEN IntoTargetAddrSocketAddr(addr[1])
        ELSE Bind(RSplitN2(s), LAMBDA parts :
            Bind(ParseU16(parts[1]), LAMBDA port :
                IF port = None
                THEN Err(InvalidTargetAddress("invalid address format"))
                ELSE IF Len(parts) < 2
                     THEN Err(InvalidTargetAddress("invalid address format"))
                ELSE IntoTargetAddrStrPort(parts[2], port[1]))))

\* impl IntoTargetAddr for (String, u16).
IntoTargetAddrString(host, port) ==
    Bind(IntoTargetAddrStrPort(host, port), LAMBDA res :
        IF ~res.ok THEN res
        ELSE IF res.val.tag = "Ip" THEN Ok(Ip(res.val.addr))
        ELSE Ok(Domain("Owned", host, port)))

\* TargetAddr::to_owned.
ToOwned(t) ==
    IF t.tag = "Ip" THEN Ip(t.addr)
    ELSE Domain("Owned", t.domain, t.port)

----------------
(* TargetAddr::write_to                                                    *)

\* The buffer while write_to runs: its bytes, and whether an index or a
\* range was out of bounds (the panic, after which nothing more is written).
Running(buf) == [buf |-> buf, panicked |-> FALSE]

\* buf[i] = v, with Rust's bounds check (i counts from 0).
SetIndex(st, i, v) ==
    IF st.panicked THEN st
    ELSE IF i >= Len(st.buf) THEN [st EXCEPT !.panicked = TRUE]
    ELSE [st EXCEPT !.buf[i + 1] = v]

\* Mutant: the copy is cut to what fits instead of panicking.
CopyFromSlice_Clamped(st, lo, hi, src) ==
    IF st.panicked THEN st
    ELSE Bind(st.buf, LAMBDA b :
            [st EXCEPT !.buf = [k \in 1..Len(b) |->
                                  IF k > lo /\ k <= hi THEN src[k - lo] ELSE b[k]]])

\* buf[lo..hi].copy_from_slice(src): the range must lie in the buffer and
\* be as long as src.
CopyFromSlice(st, lo, hi, src) ==
    IF st.panicked THEN st
    ELSE IF lo > hi \/ hi > Len(st.buf) \/ Len(src) # hi - lo
         THEN [st EXCEPT !.panicked = TRUE]
    ELSE [st EXCEPT !.buf = SubSeq(@, 1, lo) \o src \o SubSeq(@, hi + 1, Len(@))]

\* What the caller sees: the buffer, and Some(count) or a panic.
Returned(st, n) ==
    [buf |-> st.buf, panicked |-> st.panicked,
     ret |-> IF st.panicked THEN None ELSE Some(n)]

\* Mutant: the port is written low byte first.
PortBytes_LittleEndian(port) == <<port % 256, port \div 256>>

\* port.to_be_bytes(): the high byte first.
PortBytes(port) == <<port \div 256, port % 256>>

WriteV4(addr, buf) ==
    LET s1 == SetIndex(Running(buf), 0, 1)
        s2 == CopyFromSlice(s1, 1, 5, addr.ip.ip)
        s3 == CopyFromSlice(s2, 5, 7, PortBytes(addr.port))
    IN  Returned(s3, 7)

WriteV6(addr, buf) ==
    LET s1 == SetIndex(Running(buf), 0, 4)
        s2 == CopyFromSlice(s1, 1, 17, addr.ip.ip)
        s3 == CopyFromSlice(s2, 17, 19, PortBytes(addr.port))
    IN  Returned(s3, 19)

\* `len as u8` keeps the low eight bits of the length.
WriteDomain(domain, port, buf) ==
    LET bytes == AsBytes(domain)
        len == Len(bytes)
        s1 == SetIndex(Running(buf), 0, 3)
        s2 == SetIndex(s1, 1, len % 256)
        s3 == CopyFromSlice(s2, 2, 2 + len, bytes)
        s4 == CopyFromSlice(s3, 2 + len, 4 + len, PortBytes(port))
    IN  Returned(s4, 4 + len)

WriteTo(t, buf) ==
    IF t.tag = "Ip" /\ t.addr.ip.fam = "V4" THEN WriteV4(t.addr, buf)
    ELSE IF t.tag = "Ip" THEN WriteV6(t.addr, buf)
    ELSE WriteDomain(t.domain, t.port, buf)

\* The size write_to needs: what it returns when it returns.
RequiredLen(t) ==
    IF t.tag = "Ip" /\ t.addr.ip.fam = "V4" THEN 7
    ELSE IF t.tag = "Ip" THEN 19
    ELSE 4 + Len(AsBytes(t.domain))

----------------------------------------------------------------------------
(* The inputs the conversions are applied to                               *)

\* How far around MaxDomainLen the long host texts reach.
LenSlack == 1

\* The run of "a" in the over-long host of the crate's own test.
TestPad == 300

\* How many bytes beyond the required size a buffer may have.
MaxExtra == 2

\* Buffer sizes are taken within this distance of 0 and of the required size.
EdgeLens == 3

TxtV4 == {Utf8(<<"1", ".", "1", ".", "1", ".", "1">>), Utf8(<<"8", ".", "8", ".", "8", ".", "8">>)}

TxtV6 == {Utf8(<<":", ":", "1">>), Utf8(<<"f", "f", "f", "f", ":", ":", "1">>), Utf8(<<":", ":">>)}

TxtExample == Utf8(<<"w", "w", "w", ".", "e", "x", "a", "m", "p", "l", "e", ".", "c", "o", "m">>)

TxtNames == {TxtExample, Utf8(<<"a">>), <<>>, Utf8(<<":">>)}

TxtLong ==
    {Rep(Code("a"), n) : n \in (MaxDomainLen - LenSlack)..(MaxDomainLen + LenSlack)}
    \cup {Utf8(<<"w", "w", "w", ".">>) \o Rep(Code("a"), TestPad) \o Utf8(<<".", "c", "o", "m">>)}

Hosts == TxtV4 \cup TxtV6 \cup TxtNames \cup TxtLong

Ports == {0, 80, 443, 65535}

PortTexts ==
    {Utf8(<<"8", "0">>), Utf8(<<"4", "4", "3">>), Utf8(<<"0">>), Utf8(<<"6", "5", "5", "3", "5">>), Utf8(<<"6", "5", "5", "3", "6">>), <<>>, Utf8(<<"h", "t", "t", "p">>), Utf8(<<"+", "8", "0">>), Utf8(<<"-", "1">>)}

\* "host:port", "[host]:port" and a text with no port part.
Combined ==
    {h \o Utf8(<<":">>) \o p : h \in Hosts, p \in PortTexts}
    \cup {Utf8(<<"[">>) \o h \o Utf8(<<"]", ":">>) \o p : h \in TxtV6, p \in PortTexts}
    \cup Hosts

IpAddrs == {ParseIpAddr(h)[1] : h \in TxtV4 \cup TxtV6}

SocketAddrs == {SocketAddr(ip, p) : ip \in IpAddrs, p \in Ports}

NoTarget == Err([kind |-> "none", msg |-> ""])

NoWire == [buf |-> <<>>, panicked |-> FALSE, ret |-> None]

NoInput == [shape |-> "none"]

BufLens(need) ==
    {n \in 0..(need + MaxExtra) : n <= EdgeLens \/ n >= need - EdgeLens}

----------------------------------------------------------------------------
(* The address pipeline: make a TargetAddr, then hand it to write_to       *)

streamVars == <<spc, source, stream, polled, aborted>>

Init ==
    /\ pc = "start"
    /\ input = NoInput
    /\ target = NoTarget
    /\ wire = NoWire
    /\ spc = "start"
    /\ source = [shape |-> "none"]
    /\ stream = [kind |-> "none"]
    /\ polled = <<>>
    /\ aborted = FALSE

\* into_target_addr on a SocketAddr.
FromSocketAddr ==
    /\ pc = "start"
    /\ \E a \in SocketAddrs :
         /\ input' = [shape |-> "SocketAddr", addr |-> a]
         /\ target' = IntoTargetAddrSocketAddr(a)
    /\ pc' = "have"
    /\ UNCHANGED <<wire, streamVars>>

\* into_target_addr on an (IpAddr, u16) tuple.
FromIpPort ==
    /\ pc = "start"
    /\ \E ip \in IpAddrs, p \in Ports :
         /\ input' = [shape |-> "IpPort", ip |-> ip, port |-> p]
         /\ target' = IntoTargetAddrIpPort(ip, p)
    /\ pc' = "have"
    /\ UNCHANGED <<wire, streamVars>>

\* into_target_addr on a (&str, u16) pair.
FromStrPort ==
    /\ pc = "start"
    /\ \E h \in Hosts, p \in Ports :
         /\ input' = [shape |-> "StrPort", host |-> h, port |-> p]
         /\ target' = IntoTargetAddrStrPort(h, p)
    /\ pc' = "have"
    /\ UNCHANGED <<wire, streamVars>>

\* into_target_addr on a combined &str.
FromStr ==
    /\ pc = "start"
    /\ \E s \in Combined :
         /\ input' = [shape |-> "Str", text |-> s]
         /\ target' = IntoTargetAddrStr(s)
    /\ pc' = "have"
    /\ UNCHANGED <<wire, streamVars>>

\* into_target_addr on an owned (String, u16) pair.
FromStringPort ==
    /\ pc = "start"
    /\ \E h \in Hosts, p \in Ports :
         /\ input' = [shape |-> "StringPort", host |-> h, port |-> p]
         /\ target' = IntoTargetAddrString(h, p)
    /\ pc' = "have"
    /\ UNCHANGED <<wire, streamVars>>

\* The caller builds the public variant itself: TargetAddr::Domain(text, port).
Construct ==
    /\ pc = "start"
    /\ \E h \in Hosts, p \in Ports, cow \in {"Borrowed", "Owned"} :
         /\ input' = [shape |-> "Domain", host |-> h, port |-> p]
         /\ target' = Ok(Domain(cow, h, p))
    /\ pc' = "have"
    /\ UNCHANGED <<wire, streamVars>>

\* target.to_owned(), kept in place of the borrowed value.
CallToOwned ==
    /\ pc = "have"
    /\ target.ok
    /\ target' = Ok(ToOwned(target.val))
    /\ UNCHANGED <<pc, input, wire, streamVars>>

\* target.write_to(&mut buf) on a fresh buffer of n equal bytes.
CallWriteTo ==
    /\ pc = "have"
    /\ target.ok
    /\ \E n \in BufLens(RequiredLen(target.val)), fill \in {0, 255} :
         wire' = WriteTo(target.val, Rep(fill, n))
    /\ pc' = "written"
    /\ UNCHANGED <<input, target, streamVars>>

Next ==
    \/ FromSocketAddr
    \/ FromIpPort
    \/ FromStrPort
    \/ FromStr
    \/ FromStringPort
    \/ Construct
    \/ CallToOwned
    \/ CallWriteTo

Spec == Init /\ [][Next]_vars

----------------------------------------------------------------------------
(* ToProxyAddrs: the streams and their poll                                *)

\* The longest address list (a slice, or the resolver's answer).
MaxAddrs == 2

\* How many times a stream is polled.
MaxPolls == 4

\* What a poll gives its caller: Ok(Async::Ready(item)), Err(e), or the
\* panic of unreachable!().
Ready(item) == [t |-> "Ready", item |-> item]

Failed(e) == [t |-> "Err", err |-> e]

Panicked == [t |-> "Panic"]

\* From<io::Error> for Error, applied by the ? operator.
IoError(e) == [kind |-> "Io", msg |-> e]

\* std ToSocketAddrs for (&str, u16): an IP literal is itself, any other
\* host is looked up; dns is the answer of the lookup, Ok(IPs) or Err(e).
ToSocketAddrsStrPort(host, port, dns) ==
    Bind(ParseIpAddr(host), LAMBDA ip :
        IF ip # None THEN Ok(<<SocketAddr(ip[1], port)>>)
        ELSE IF ~dns.ok THEN dns
        ELSE Ok([i \in 1..Len(dns.val) |-> SocketAddr(dns.val[i], port)]))

\* std ToSocketAddrs for str: a socket address literal is itself; otherwise
\* the text is split at its last colon into a host to look up and a port.
ToSocketAddrsStr(s, dns) ==
    Bind(ParseSocketAddr(s), LAMBDA addr :
        IF addr # None THEN Ok(<<addr[1]>>)
        ELSE Bind(RSplitN2(s), LAMBDA parts :
            IF Len(parts) < 2 THEN Err("invalid socket address")
            ELSE Bind(ParseU16(parts[1]), LAMBDA port :
                IF port = None THEN Err("invalid port value")
                ELSE ToSocketAddrsStrPort(parts[2], port[1], dns))))

\* stream::once(Ok(addr)): futures' Once holds Option<Result<T, E>>.
Once(item) == [kind |-> "Once", slot |-> Some(item)]

\* stream::iter_ok(iter).
IterOk(iter) == [kind |-> "IterOk", iter |-> iter]

\* ProxyAddrsStream(Some(result)), result an io::Result of an address iterator.
ProxyAddrsStream(result) == [kind |-> "ProxyAddrsStream", opt |-> Some(result)]

\* TargetAddrsStream(Either::Left(once)) or (Either::Right(proxy stream)).
TargetAddrsStream(inner) == [kind |-> "TargetAddrsStream", inner |-> inner]

\* trivial_impl_to_proxy_addrs!: SocketAddr, the IP and port tuples.
ToProxyAddrsSocketAddr(addr) == Once(Ok(addr))

\* impl ToProxyAddrs for &[SocketAddr].
ToProxyAddrsSlice(addrs) == IterOk(addrs)

\* impl ToProxyAddrs for str.
ToProxyAddrsStr(s, dns) == ProxyAddrsStream(ToSocketAddrsStr(s, dns))

\* impl ToProxyAddrs for (&str, u16).
ToProxyAddrsStrPort(host, port, dns) ==
    ProxyAddrsStream(ToSocketAddrsStrPort(host, port, dns))

\* impl ToProxyAddrs for TargetAddr.
ToProxyAddrsTarget(t, dns) ==
    IF t.tag = "Ip" THEN TargetAddrsStream(ToProxyAddrsSocketAddr(t.addr))
    ELSE TargetAddrsStream(ToProxyAddrsStrPort(t.domain, t.port, dns))

\* A poll: the stream afterwards, and what the caller got.
Polled(st, out) == [stream |-> st, out |-> out]

\* Mutant: the item is not taken out, so every poll yields it again.
PollOnce_NoTake(st) ==
    IF st.slot = None THEN Polled(st, Ready(None))
    ELSE IF st.slot[1].ok THEN Polled(st, Ready(Some(st.slot[1].val)))
    ELSE Polled(st, Failed(st.slot[1].err))

\* Once::poll: self.0.take(), Some(Ok(e)) is the item, None the end.
PollOnce(st) ==
    IF st.slot = None THEN Polled(st, Ready(None))
    ELSE IF st.slot[1].ok
         THEN Polled([st EXCEPT !.slot = None], Ready(Some(st.slot[1].val)))
    ELSE Polled([st EXCEPT !.slot = None], Failed(st.slot[1].err))

\* IterOk::poll: Ok(Async::Ready(self.iter.next())).
PollIterOk(st) ==
    IF st.iter = <<>> THEN Polled(st, Ready(None))
    ELSE Polled([st EXCEPT !.iter = Tail(@)], Ready(Some(Head(st.iter))))

\* Mutant: the iterator is not advanced.
PollProxyAddrsStream_NoAdvance(st) ==
    IF st.opt # None /\ st.opt[1].ok
    THEN IF st.opt[1].val = <<>> THEN Polled(st, Ready(None))
         ELSE Polled(st, Ready(Some(Head(st.opt[1].val))))
    ELSE IF st.opt # None
         THEN Polled([st EXCEPT !.opt = None], Failed(IoError(st.opt[1].err)))
    ELSE Polled(st, Panicked)

\* ProxyAddrsStream::poll.
PollProxyAddrsStream(st) ==
    IF st.opt # None /\ st.opt[1].ok
    THEN IF st.opt[1].val = <<>> THEN Polled(st, Ready(None))
         ELSE Polled([st EXCEPT !.opt = Some(Ok(Tail(st.opt[1].val)))],
                     Ready(Some(Head(st.opt[1].val))))
    ELSE IF st.opt # None
         THEN Polled([st EXCEPT !.opt = None], Failed(IoError(st.opt[1].err)))
    ELSE Polled(st, Panicked)

\* The poll of the stream inside a TargetAddrsStream.
PollInner(st) ==
    IF st.kind = "Once" THEN PollOnce(st) ELSE PollProxyAddrsStream(st)

\* TargetAddrsStream::poll: the poll of whichever stream it holds.
PollTargetAddrsStream(st) ==
    Bind(PollInner(st.inner), LAMBDA r :
        Polled([st EXCEPT !.inner = r.stream], r.out))

PollStream(st) ==
    IF st.kind = "Once" THEN PollOnce(st)
    ELSE IF st.kind = "IterOk" THEN PollIterOk(st)
    ELSE IF st.kind = "ProxyAddrsStream" THEN PollProxyAddrsStream(st)
    ELSE PollTargetAddrsStream(st)

----------------------------------------------------------------------------
(* The proxy address scenario: to_proxy_addrs, then poll after poll        *)

addrVars == <<pc, input, target, wire>>

\* The sequences over S of length at most n.
SeqsUpTo(S, n) == UNION {[1..k -> S] : k \in 0..n}

Txt80 == Utf8(<<"8", "0">>)

TxtHttp == Utf8(<<"h", "t", "t", "p">>)

\* The IP addresses a lookup may answer with.
DnsIps == {ParseIpAddr(h)[1] : h \in TxtV4}

\* The io::Error of a host name that does not resolve.
LookupFailed == Err("failed to lookup address information")

\* What the platform's lookup answers: an error, or a list of addresses.
DnsAnswers == {LookupFailed} \cup {Ok(l) : l \in SeqsUpTo(DnsIps, MaxAddrs)}

ProxyAddrs ==
    {SocketAddr(V4(<<1, 1, 1, 1>>), 443), SocketAddr(V4(<<8, 8, 8, 8>>), 53),
     SocketAddr(ParseIpAddr(Utf8(<<":", ":", "1">>))[1], 80)}

ProxyHosts == {Utf8(<<"1", ".", "1", ".", "1", ".", "1">>), Utf8(<<":", ":", "1">>), TxtExample}

\* "host:port" with a good and a bad port, and a host without a port.
ProxyTexts ==
    {h \o Utf8(<<":">>) \o p : h \in {Utf8(<<"1", ".", "1", ".", "1", ".", "1">>), TxtExample}, p \in {Txt80, TxtHttp}}
    \cup {TxtExample}

\* The TargetAddr values to_proxy_addrs is called on.
ProxyTargets ==
    {Ip(a) : a \in ProxyAddrs}
    \cup {Domain("Borrowed", h, p) : h \in ProxyHosts, p \in {80, 443}}

\* source: the shape of the value, whether its addresses come from a text
\* (textual), and result: the addresses it names, Ok(list), or the error
\* of resolving it.
Source(shape, textual, result) ==
    [shape |-> shape, textual |-> textual, result |-> result]

ProxySocketAddr ==
    /\ spc = "start"
    /\ \E a \in ProxyAddrs :
         /\ source' = Source("SocketAddr", FALSE, Ok(<<a>>))
         /\ stream' = ToProxyAddrsSocketAddr(a)
    /\ spc' = "polling"
    /\ UNCHANGED <<polled, aborted, addrVars>>

\* (ip, port).to_proxy_addrs(): SocketAddr::from(*self) builds the address.
ProxyIpPort ==
    /\ spc = "start"
    /\ \E a \in ProxyAddrs :
         /\ source' = Source("IpPort", FALSE, Ok(<<a>>))
         /\ stream' = ToProxyAddrsSocketAddr(SocketAddr(a.ip, a.port))
    /\ spc' = "polling"
    /\ UNCHANGED <<polled, aborted, addrVars>>

\* (&addr).to_proxy_addrs(): impl ToProxyAddrs for &T calls T's.
ProxyRef ==
    /\ spc = "start"
    /\ \E a \in ProxyAddrs :
         /\ source' = Source("Ref", FALSE, Ok(<<a>>))
         /\ stream' = ToProxyAddrsSocketAddr(a)
    /\ spc' = "polling"
    /\ UNCHANGED <<polled, aborted, addrVars>>

ProxySlice ==
    /\ spc = "start"
    /\ \E l \in SeqsUpTo(ProxyAddrs, MaxAddrs) :
         /\ source' = Source("Slice", FALSE, Ok(l))
         /\ stream' = ToProxyAddrsSlice(l)
    /\ spc' = "polling"
    /\ UNCHANGED <<polled, aborted, addrVars>>

ProxyStr ==
    /\ spc = "start"
    /\ \E s \in ProxyTexts, dns \in DnsAnswers :
         /\ source' = Source("Str", TRUE, ToSocketAddrsStr(s, dns))
         /\ stream' = ToProxyAddrsStr(s, dns)
    /\ spc' = "polling"
    /\ UNCHANGED <<polled, aborted, addrVars>>

ProxyStrPort ==
    /\ spc = "start"
    /\ \E h \in ProxyHosts, p \in {80, 443}, dns \in DnsAnswers :
         /\ source' = Source("StrPort", TRUE, ToSocketAddrsStrPort(h, p, dns))
         /\ stream' = ToProxyAddrsStrPort(h, p, dns)
    /\ spc' = "polling"
    /\ UNCHANGED <<polled, aborted, addrVars>>

ProxyTarget ==
    /\ spc = "start"
    /\ \E t \in ProxyTargets, dns \in DnsAnswers :
         /\ source' =
              IF t.tag = "Ip" THEN Source("TargetAddr", FALSE, Ok(<<t.addr>>))
              ELSE Source("TargetAddr", TRUE,
                          ToSocketAddrsStrPort(t.domain, t.port, dns))
         /\ stream' = ToProxyAddrsTarget(t, dns)
    /\ spc' = "polling"
    /\ UNCHANGED <<polled, aborted, addrVars>>

\* stream.poll(); a panic ends the polling.
Poll ==
    /\ spc = "polling"
    /\ ~aborted
    /\ Len(polled) < MaxPolls
    /\ \E r \in {PollStream(stream)} :
         /\ stream' = r.stream
         /\ polled' = Append(polled, r.out)
         /\ aborted' = (r.out = Panicked)
    /\ UNCHANGED <<spc, source, addrVars>>

StreamNext ==
    \/ ProxySocketAddr
    \/ ProxyIpPort
    \/ ProxyRef
    \/ ProxySlice
    \/ ProxyStr
    \/ ProxyStrPort
    \/ ProxyTarget
    \/ Poll

StreamSpec == Init /\ [][StreamNext]_vars

----------------------------------------------------------------------------
(* Properties of the conversions (checked under Spec)                      *)

InvalidFormat == Err(InvalidTargetAddress("invalid address format"))

OverlongDomain == Err(InvalidTargetAddress("overlong domain"))

\* The text before and after the last colon of a text that has one.
HostPart(s) == SubSeq(s, 1, LastPos(s, Code(":")) - 1)

PortPart(s) == SubSeq(s, LastPos(s, Code(":")) + 1, Len(s))

HasColon(s) == Positions(s, Code(":")) # {}

\* C1: into_target_addr on (host-text, port): an IP literal gives
\* Ip(that IP, port); any other text of at most 255 bytes gives
\* Domain(host-text, port) unchanged, and one of 256 bytes or more gives
\* the error InvalidTargetAddress("overlong domain").
C1_PairNormalization ==
    (pc # "start" /\ input.shape = "StrPort") =>
        IF ParseIpAddr(input.host) # None
        THEN target = Ok(Ip(SocketAddr(ParseIpAddr(input.host)[1], input.port)))
        ELSE IF Len(input.host) <= 255
             THEN /\ target.ok
                  /\ target.val.tag = "Domain"
                  /\ target.val.domain = input.host
                  /\ target.val.port = input.port
        ELSE Len(input.host) >= 256 /\ target = OverlongDomain

\* C1's case: a domain of exactly 255 bytes was accepted.
C1_Witness ==
    /\ pc = "have" /\ input.shape = "StrPort"
    /\ Len(input.host) = 255
    /\ target.ok /\ target.val.tag = "Domain" /\ Len(target.val.domain) = 255

\* C2 as stated: into_target_addr on a combined text that has no colon, or
\* that is an IPv6 literal without brackets, fails with
\* InvalidTargetAddress("invalid address format") and yields no Ip and no
\* Domain.
C2_NoColonOrBareIpv6Fails ==
    (/\ pc # "start" /\ input.shape = "Str"
     /\ (~HasColon(input.text) \/ ParseIpv6(input.text) # None))
        => target = InvalidFormat

\* C3: when the text after the last colon of a combined text is not a
\* decimal number in 0..65535, into_target_addr fails with the invalid
\* address format error, also when the host part is longer than 255 bytes
\* (never with the overlong domain error).
C3_BadPortIsInvalidFormat ==
    (/\ pc # "start" /\ input.shape = "Str"
     /\ HasColon(input.text)
     /\ ParseU16(PortPart(input.text)) = None)
        => target = InvalidFormat

\* C3's case: the port is 65536 and the host is longer than 255 bytes.
C3_Witness ==
    /\ pc = "have" /\ input.shape = "Str"
    /\ HasColon(input.text)
    /\ PortPart(input.text) = Utf8(<<"6", "5", "5", "3", "6">>)
    /\ Len(HostPart(input.text)) > 255
    /\ target = InvalidFormat

\* The IP address a host part names: an IP literal, or an IPv6 literal in
\* brackets (None for any other text).
HostIp(h) ==
    OrElse(ParseIpAddr(h),
           IF Len(h) >= 2 /\ h[1] = Code("[") /\ h[Len(h)] = Code("]")
           THEN MapSome(ParseIpv6(SubSeq(h, 2, Len(h) - 1)), V6)
           ELSE None)

C5_DomainAtMost255 ==
    (pc # "start" /\ target.ok /\ target.val.tag = "Domain") =>
        /\ Len(AsBytes(target.val.domain)) <= 255
        /\ (pc = "written" /\ ~wire.panicked)
              => wire.buf[2] = Len(AsBytes(target.val.domain))

----------------------------------------------------------------------------
(* Properties of write_to (checked under Spec)                             *)

\* The smallest buffer the address needs: 7, 19, or 4 + the domain length.
MinBuf(t) ==
    IF t.tag = "Domain" THEN 4 + Len(t.domain)
    ELSE IF t.addr.ip.fam = "V4" THEN 7
    ELSE 19

\* The wire form of the ATYP table: tag, body, port high byte first.
Layout(t) ==
    IF t.tag = "Domain"
    THEN <<3, Len(t.domain)>> \o t.domain \o <<t.port \div 256, t.port % 256>>
    ELSE <<IF t.addr.ip.fam = "V4" THEN 1 ELSE 4>> \o t.addr.ip.ip
         \o <<t.addr.port \div 256, t.addr.port % 256>>

\* Reading an address back from its wire form, by the ATYP table.
Decode(bs) ==
    IF bs[1] = 1
    THEN Ip(SocketAddr(V4(SubSeq(bs, 2, 5)), bs[6] * 256 + bs[7]))
    ELSE IF bs[1] = 4
    THEN Ip(SocketAddr(V6(SubSeq(bs, 2, 17)), bs[18] * 256 + bs[19]))
    ELSE Domain("Owned", SubSeq(bs, 3, 2 + bs[2]),
                bs[3 + bs[2]] * 256 + bs[4 + bs[2]])

\* C6: for an address whose domain has at most 255 bytes and a buffer of
\* at least the required size, write_to returns 7, 19 or 4 + domain_len,
\* the bytes it wrote are the ATYP layout, and decoding them gives the
\* address and port back.
C6_WireLayoutRoundTrip ==
    (/\ pc = "written"
     /\ Len(wire.buf) >= MinBuf(target.val)
     /\ target.val.tag = "Domain" => Len(target.val.domain) <= 255)
        => /\ ~wire.panicked
           /\ wire.ret = Some(MinBuf(target.val))
           /\ SubSeq(wire.buf, 1, MinBuf(target.val)) = Layout(target.val)
           /\ TargetEq(Decode(SubSeq(wire.buf, 1, wire.ret[1])), target.val)

\* C6's case: a 255-byte domain written into a buffer that is large enough.
C6_Witness ==
    /\ pc = "written"
    /\ target.val.tag = "Domain" /\ Len(target.val.domain) = 255
    /\ target.val.port = 443
    /\ wire.ret = Some(259)
    /\ wire.buf[2] = 255 /\ wire.buf[258] = 1 /\ wire.buf[259] = 187

\* C9: with a buffer shorter than the required size (7, 19, 4 + the domain
\* length), the empty buffer included, write_to panics: it returns no count.
C9_ShortBufferPanics ==
    (pc = "written" /\ Len(wire.buf) < MinBuf(target.val))
        => wire.panicked /\ wire.ret = None

\* C9's case: an IPv6 address and a buffer of 18 bytes, one too few.
C9_Witness ==
    /\ pc = "written"
    /\ target.val.tag = "Ip" /\ target.val.addr.ip.fam = "V6"
    /\ Len(wire.buf) = 18
    /\ wire.panicked

----------------------------------------------------------------------------
(* Properties of the streams (checked under StreamSpec)                    *)

\* What the polls of a stream over addrs give: each address in order, then
\* the end of the stream at every later poll.
DrainsInOrder(addrs) ==
    /\ ~aborted
    /\ \A k \in 1..Len(polled) :
          polled[k] = IF k <= Len(addrs) THEN Ready(Some(addrs[k]))
                      ELSE Ready(None)

\* C7 as stated: when resolving a textual proxy address fails, the first
\* poll gives the one error, and every further poll gives neither a second
\* error nor an address, and does not abort.
C7_OneErrorThenEnd ==
    (spc = "polling" /\ source.textual /\ source.result = LookupFailed) =>
        /\ ~aborted
        /\ \A k \in 1..Len(polled) :
              polled[k] = IF k = 1 THEN Failed(IoError(source.result.err))
                          ELSE Ready(None)

\* C8: the stream of an already concrete proxy address (a socket address,
\* an IP and port tuple, a reference to one, TargetAddr::Ip, a slice of N
\* socket addresses) gives exactly the input addresses, each once and in
\* order, then the end of the stream, and never an error.
C8_ConcreteAddrsInOrder ==
    (spc = "polling" /\ ~source.textual) => DrainsInOrder(source.result.val)

\* C8's case: a slice of two different addresses, polled to its end.
C8_Witness ==
    /\ source.shape = "Slice" /\ ~source.textual
    /\ Len(source.result.val) = 2
    /\ source.result.val[1] # source.result.val[2]
    /\ Len(polled) = 3
    /\ polled[3] = Ready(None)

\* C10: when the resolution of a textual proxy address succeeds with
\* [a1..an], the k-th poll gives ak, the (n+1)-th and every later poll give
\* the end of the stream, and no poll gives an error or panics.
C10_ResolvedAddrsInOrder ==
    (spc = "polling" /\ source.textual /\ source.result.ok)
        => DrainsInOrder(source.result.val)

\* C10's case: a TargetAddr::Domain resolved to two addresses, polled past
\* its end.
C10_Witness ==
    /\ source.shape = "TargetAddr" /\ source.textual /\ source.result.ok
    /\ Len(source.result.val) = 2
    /\ source.result.val[1] # source.result.val[2]
    /\ Len(polled) = 4
    /\ polled[2] = Ready(Some(source.result.val[2]))
    /\ polled[4] = Ready(None)
====
